---- MODULE Spec2Model ----
(***************************************************************************)
(* A model of caffe2/core/common_gpu.h: the scoped device switch           *)
(* (DeviceGuard), the checking macro CUDA_CHECK, the default GPU id, the   *)
(* kernel-launch sizing function CAFFE_GET_BLOCKS and the peer access      *)
(* pattern query.                                                          *)
(*                                                                         *)
(* The CUDA runtime is the environment: every host thread has its own      *)
(* current device, cudaSetDevice rejects an ordinal outside                *)
(* 0 .. count-1 with cudaErrorInvalidDevice and may fail for any other     *)
(* reason as well; a failed call leaves the current device as it was.      *)
(***************************************************************************)
EXTENDS Integers, Sequences, FiniteSets

(* ------------------------------ bounds -------------------------------- *)

\* Host threads that use guards.
NumThreads == 2
\* Devices the runtime reports (cudaGetDeviceCount); valid ids are 0 .. NumDevices-1.
NumDevices == 2
\* Deepest nesting of live guards on the thread of Spec.
MaxDepth == 2

Threads == 1..NumThreads
\* Device ids callers pass: every valid id, one below and one above the range.
DeviceArgs == (-1)..NumDevices
Faults == {"none", "get", "set"}

(* --------------------------- runtime statuses -------------------------- *)

cudaSuccess == "cudaSuccess"
cudaErrorInvalidDevice == "cudaErrorInvalidDevice"
cudaErrorUnknown == "cudaErrorUnknown"

VARIABLES
  alive,          \* FALSE once the process has been terminated by a fatal error
  cur,            \* cur[th]: the runtime's current device of thread th
  guards,         \* guards[th]: the live DeviceGuards of thread th, innermost last
  exc,            \* exc[th]: an exception is unwinding thread th's scopes
  staticPrev,     \* history: the value most recently stored into any guard's previous_
  gDefaultGPUID,  \* the process-wide default GPU id
  defaultArg,     \* history: <<k>> for the latest SetDefaultGPUID(k), <<>> before the first
  last,           \* history: the operation performed by the latest step
  blkN,           \* the argument of the CAFFE_GET_BLOCKS call under study
  blkOut,         \* <<>> before the call, <<outcome>> after it
  peerCount,      \* the device count the runtime reports to the peer access query
  peerCan,        \* the ordered pairs <<i, j>> for which cudaDeviceCanAccessPeer says yes
  peerOut         \* <<>> before GetCudaPeerAccessPattern, <<result>> after it

guardVars == <<alive, cur, guards, exc, staticPrev, gDefaultGPUID, defaultArg, last>>
blockVars == <<blkN, blkOut>>
peerVars == <<peerCount, peerCan, peerOut>>
vars == <<guardVars, blockVars, peerVars>>

(* ------------------------------ runtime -------------------------------- *)

ValidDevice(d) == d \in 0..(NumDevices - 1)

\* cudaSetDevice(device): the status returned; fault says the runtime fails
\* for a reason of its own.
cudaSetDevice(device, fault) ==
  IF ~ValidDevice(device) THEN cudaErrorInvalidDevice
  ELSE IF fault THEN cudaErrorUnknown
  ELSE cudaSuccess

\* The calling thread's current device after cudaSetDevice(device) returned status.
AfterSetDevice(th, device, status) ==
  IF status = cudaSuccess THEN [cur EXCEPT ![th] = device] ELSE cur

\* cudaGetDevice(&d): status and the calling thread's current device.
cudaGetDevice(th, fault) ==
  [status |-> IF fault THEN cudaErrorUnknown ELSE cudaSuccess, device |-> cur[th]]

(* --------------------------- checking macros --------------------------- *)

\* CAFFE_ENFORCE_EQ(x, y, ...): continues when x = y; otherwise the failure is
\* fatal: it is logged and the process is terminated.
CAFFE_ENFORCE_EQ(x, y) == IF x = y THEN "continue" ELSE "fatal"

\* A CUDA_CHECK that lets every status through.
CUDA_CHECK_unchecked(error) == "continue"

\* CUDA_CHECK(condition): cudaError_t error = condition;
\* CAFFE_ENFORCE_EQ(error, cudaSuccess, ...).
CUDA_CHECK(error) == CAFFE_ENFORCE_EQ(error, cudaSuccess)

\* GetCurrentGPUID(): a wrapper around cudaGetDevice(), checked.
GetCurrentGPUID(th, fault) ==
  LET r == cudaGetDevice(th, fault)
  IN [check |-> CUDA_CHECK(r.status), status |-> r.status, device |-> r.device]

(* ------------------------------ DeviceGuard ---------------------------- *)

NoOp ==
  [th |-> 0, op |-> "none", c |-> 0, t |-> 0, calls |-> <<>>, err |-> cudaSuccess,
   via |-> "none", ambient |-> 0, base |-> 0, depth |-> 0]

\* The constructor's test with the comparison always true.
NeedsSwitch_always(previous, newDevice) == TRUE

\* The constructor's test with the comparison inverted.
NeedsSwitch_inverted(previous, newDevice) == previous = newDevice

\* if (previous_ != newDevice)
NeedsSwitch(previous, newDevice) == previous # newDevice

\* The value the member initializer stores, taken after the switch instead of before.
RecordedPrevious_target(current, newDevice) == newDevice

\* previous_(GetCurrentGPUID()): the value the member initializer stores.
RecordedPrevious(current, newDevice) == current

\* previous_ as a static member: every guard reads the value stored last.
SavedPrevious_static(th) == staticPrev

\* The destructor's read of its own previous_ member (the innermost guard's).
SavedPrevious(th) == guards[th][Len(guards[th])].previous_

\* A destructor that restores only when the constructor switched.
RestoreCalls_ifSwitched(g, previous) ==
  IF g.ambient # g.target THEN <<previous>> ELSE <<>>

\* The cudaSetDevice calls the destructor issues for guard g.
RestoreCalls(g, previous) == <<previous>>

Terminate(rec) ==
  /\ alive' = FALSE
  /\ last' = rec
  /\ UNCHANGED <<cur, guards, exc, staticPrev, gDefaultGPUID, defaultArg, blockVars, peerVars>>

\* explicit DeviceGuard(int newDevice)
DeviceGuardCtor(th, newDevice, fault) ==
  /\ alive /\ ~exc[th]
  /\ UNCHANGED <<blockVars, peerVars>>
  /\ LET got == GetCurrentGPUID(th, fault = "get")
         rec == [NoOp EXCEPT !.th = th, !.op = "ctor", !.c = cur[th], !.t = newDevice,
                             !.depth = Len(guards[th])]
     IN IF got.check = "fatal"
        THEN Terminate([rec EXCEPT !.err = got.status, !.via = "get"])
        ELSE
          LET previous_ == RecordedPrevious(got.device, newDevice)
              calls == IF NeedsSwitch(previous_, newDevice) THEN <<newDevice>> ELSE <<>>
              status == IF calls = <<>> THEN cudaSuccess
                        ELSE cudaSetDevice(calls[1], fault = "set")
              cur1 == IF calls = <<>> THEN cur ELSE AfterSetDevice(th, calls[1], status)
              base == IF guards[th] = <<>> THEN cur[th] ELSE guards[th][1].base
              g == [previous_ |-> previous_, ambient |-> cur[th], target |-> newDevice,
                    base |-> base]
              rec1 == [rec EXCEPT !.calls = calls, !.err = status, !.via = "set",
                                  !.ambient = cur[th], !.base = base]
          IN IF CUDA_CHECK(status) = "fatal"
             THEN /\ alive' = FALSE
                  /\ cur' = cur1
                  /\ last' = rec1
                  /\ UNCHANGED <<guards, exc, staticPrev, gDefaultGPUID, defaultArg, blockVars, peerVars>>
             ELSE /\ cur' = cur1
                  /\ guards' = [guards EXCEPT ![th] = Append(@, g)]
                  /\ staticPrev' = previous_
                  /\ last' = rec1
                  /\ UNCHANGED <<alive, exc, gDefaultGPUID, defaultArg>>

\* ~DeviceGuard(): runs when the innermost guard's scope is left, by falling
\* off its end or by an exception unwinding through it.
DeviceGuardDtor(th, fault) ==
  /\ alive /\ guards[th] # <<>>
  /\ LET g == guards[th][Len(guards[th])]
         previous == SavedPrevious(th)
         calls == RestoreCalls(g, previous)
         status == IF calls = <<>> THEN cudaSuccess
                   ELSE cudaSetDevice(calls[1], fault = "set")
         cur1 == IF calls = <<>> THEN cur ELSE AfterSetDevice(th, calls[1], status)
         rec == [th |-> th, op |-> "dtor", c |-> cur[th], t |-> g.target,
                 calls |-> calls, err |-> status,
                 via |-> IF exc[th] THEN "unwind" ELSE "normal",
                 ambient |-> g.ambient, base |-> g.base, depth |-> Len(guards[th])]
     IN /\ cur' = cur1
        /\ last' = rec
        /\ IF CUDA_CHECK(status) = "fatal"
           THEN /\ alive' = FALSE
                /\ UNCHANGED guards
           ELSE /\ guards' = [guards EXCEPT ![th] = SubSeq(@, 1, Len(@) - 1)]
                /\ UNCHANGED alive
        /\ UNCHANGED <<exc, staticPrev, gDefaultGPUID, defaultArg, blockVars, peerVars>>

(* ------------------------- code around the guards ---------------------- *)

\* The body of a scope (or the code between scopes) switches the current
\* device itself: CUDA_CHECK(cudaSetDevice(device)).
BodySetDevice(th, device, fault) ==
  /\ alive /\ ~exc[th]
  /\ LET status == cudaSetDevice(device, fault = "set")
     IN /\ cur' = AfterSetDevice(th, device, status)
        /\ alive' = (CUDA_CHECK(status) # "fatal")
        /\ last' = [NoOp EXCEPT !.th = th, !.op = "body", !.err = status]
        /\ UNCHANGED <<guards, exc, staticPrev, gDefaultGPUID, defaultArg, blockVars, peerVars>>

\* The body of the innermost scope throws.
BodyThrow(th) ==
  /\ alive /\ ~exc[th] /\ guards[th] # <<>>
  /\ exc' = [exc EXCEPT ![th] = TRUE]
  /\ last' = [NoOp EXCEPT !.th = th, !.op = "throw"]
  /\ UNCHANGED <<alive, cur, guards, staticPrev, gDefaultGPUID, defaultArg, blockVars, peerVars>>

\* A handler around the scopes left so far catches the exception.
Catch(th) ==
  /\ alive /\ exc[th]
  /\ exc' = [exc EXCEPT ![th] = FALSE]
  /\ last' = [NoOp EXCEPT !.th = th, !.op = "catch"]
  /\ UNCHANGED <<alive, cur, guards, staticPrev, gDefaultGPUID, defaultArg, blockVars, peerVars>>

(* --------------------------- default GPU id ---------------------------- *)

\* A SetDefaultGPUID that clamps its argument into the device range.
StoredDefault_clamped(deviceid) ==
  IF deviceid < 0 THEN 0
  ELSE IF deviceid >= NumDevices THEN NumDevices - 1 ELSE deviceid

\* The value SetDefaultGPUID(deviceid) stores.
StoredDefault(deviceid) == deviceid

\* void SetDefaultGPUID(const int deviceid)
SetDefaultGPUID(deviceid) ==
  /\ alive
  /\ gDefaultGPUID' = StoredDefault(deviceid)
  /\ defaultArg' = <<deviceid>>
  /\ last' = [NoOp EXCEPT !.op = "setdefault"]
  /\ UNCHANGED <<alive, cur, guards, exc, staticPrev, blockVars, peerVars>>

\* int GetDefaultGPUID()
GetDefaultGPUID == gDefaultGPUID

(* --------------------------- CAFFE_GET_BLOCKS -------------------------- *)

CAFFE_CUDA_NUM_THREADS == 512
CAFFE_MAXIMUM_NUM_BLOCKS == 4096
\* The largest and smallest values of int (32 bits).
INT_MAX == 2147483647
INT_MIN == (-2147483647) - 1

\* Arguments tried: 0 .. SmallN, the block-size and clamp boundaries, and the
\* TopSpan largest values of int.
SmallN == 40
TopSpan == 600

BlockInputs ==
  (0..SmallN)
    \cup {CAFFE_CUDA_NUM_THREADS + d : d \in (-1)..1}
    \cup {CAFFE_CUDA_NUM_THREADS * CAFFE_MAXIMUM_NUM_BLOCKS + d : d \in (-1)..1}
    \cup {INT_MAX - d : d \in 0..TopSpan}

\* a / b on int: the quotient truncated toward zero (b > 0).
CDiv(a, b) ==
  IF a >= 0 \/ a % b = 0 THEN a \div b ELSE (a \div b) + 1

\* a + b on int, b >= 0. A sum above INT_MAX is a signed overflow, which is
\* undefined: a build either wraps modulo 2^32 or traps.
IntAdd(a, b) ==
  IF a <= INT_MAX - b
  THEN {[trap |-> FALSE, value |-> a + b]}
  ELSE {[trap |-> FALSE, value |-> INT_MIN + ((a - INT_MAX) + (b - 1))],
        [trap |-> TRUE, value |-> 0]}

StdMin(a, b) == IF b < a THEN b ELSE a

\* inline int CAFFE_GET_BLOCKS(const int N): the outcomes a build can produce.
CAFFE_GET_BLOCKS(N) ==
  {IF s.trap THEN s
   ELSE [trap |-> FALSE,
         value |-> StdMin(CDiv(s.value, CAFFE_CUDA_NUM_THREADS), CAFFE_MAXIMUM_NUM_BLOCKS)]
   : s \in IntAdd(N, CAFFE_CUDA_NUM_THREADS - 1)}

CallGetBlocks ==
  /\ blkOut = <<>>
  /\ \E r \in CAFFE_GET_BLOCKS(blkN) : blkOut' = <<r>>
  /\ UNCHANGED <<blkN, guardVars, peerVars>>

(* ----------------------- GetCudaPeerAccessPattern ---------------------- *)

\* Device counts tried by the peer access query: 0 .. MaxPeerDevices.
MaxPeerDevices == 3

PeerPairs(n) == {p \in (0..(n - 1)) \X (0..(n - 1)) : p[1] # p[2]}

\* The position of pair p in the row-major order the queries are made in.
PairIndex(p, n) == p[1] * n + p[2]

\* A matrix whose diagonal is left to the runtime's answer as well.
PeerEntry_noDiagonal(i, j, can) == <<i, j>> \in can

\* Entry (i, j): true on the diagonal, the runtime's answer elsewhere.
PeerEntry(i, j, can) == i = j \/ <<i, j>> \in can

\* bool GetCudaPeerAccessPattern(vector<vector<bool> >* pattern).
\* failAt names the first runtime query that fails: "none", "count", or the pair
\* whose cudaDeviceCanAccessPeer query fails.
PeerAccessPattern(n, can, failAt) ==
  IF failAt = <<"count">>
  THEN [ok |-> FALSE, side |-> 0, pattern |-> {}, failAt |-> failAt]
  ELSE
    [ok |-> failAt = <<"none">>,
     side |-> n,
     pattern |-> {p \in (0..(n - 1)) \X (0..(n - 1)) :
                    /\ failAt = <<"none">> \/ PairIndex(p, n) < PairIndex(failAt, n)
                    /\ PeerEntry(p[1], p[2], can)},
     failAt |-> failAt]

GetCudaPeerAccessPattern(failAt) ==
  /\ alive /\ peerOut = <<>>
  /\ peerOut' = <<PeerAccessPattern(peerCount, peerCan, failAt)>>
  /\ UNCHANGED <<peerCount, peerCan, guardVars, blockVars>>

(* ---------------------------- specifications --------------------------- *)

GuardInit ==
  /\ alive = TRUE
  /\ guards = [th \in Threads |-> <<>>]
  /\ exc = [th \in Threads |-> FALSE]
  /\ staticPrev = 0
  /\ gDefaultGPUID = 0
  /\ defaultArg = <<>>
  /\ last = NoOp

BlockIdle == blkN = 0 /\ blkOut = <<>>
PeerIdle == peerCount = 0 /\ peerCan = {} /\ peerOut = <<>>

\* One thread's guards, nested to MaxDepth, the bodies of their scopes with
\* their device switches and exceptions, and the default GPU id, from every
\* valid current device.
Init ==
  /\ GuardInit
  /\ cur \in {f \in [Threads -> 0..(NumDevices - 1)] : \A th \in Threads \ {1} : f[th] = 0}
  /\ BlockIdle /\ PeerIdle

Next ==
  \/ \E d \in DeviceArgs, f \in Faults :
       Len(guards[1]) < MaxDepth /\ DeviceGuardCtor(1, d, f)
  \/ \E f \in Faults \ {"get"} : DeviceGuardDtor(1, f)
  \/ \E d \in DeviceArgs, f \in Faults \ {"get"} : BodySetDevice(1, d, f)
  \/ BodyThrow(1)
  \/ Catch(1)
  \/ \E k \in DeviceArgs : SetDefaultGPUID(k)

Spec == Init /\ [][Next]_vars

\* Guards and device switches interleaved on NumThreads threads, from every
\* assignment of valid current devices. A thread holds one guard at a time and
\* every runtime call succeeds here; nesting, exceptions and failing calls are
\* the subject of Spec.
InitThreads ==
  /\ GuardInit
  /\ cur \in [Threads -> 0..(NumDevices - 1)]
  /\ BlockIdle /\ PeerIdle

NextThreads ==
  \/ \E th \in Threads, d \in 0..(NumDevices - 1) :
       guards[th] = <<>> /\ DeviceGuardCtor(th, d, "none")
  \/ \E th \in Threads : DeviceGuardDtor(th, "none")
  \/ \E th \in Threads, d \in 0..(NumDevices - 1) : BodySetDevice(th, d, "none")

SpecThreads == InitThreads /\ [][NextThreads]_vars

\* One call of CAFFE_GET_BLOCKS on each argument of BlockInputs.
InitBlocks ==
  /\ GuardInit
  /\ cur = [th \in Threads |-> 0]
  /\ blkN \in BlockInputs /\ blkOut = <<>>
  /\ PeerIdle

NextBlocks == CallGetBlocks

SpecBlocks == InitBlocks /\ [][NextBlocks]_vars

\* One peer access query for each device count, capability relation and
\* failing runtime query.
InitPeer ==
  /\ GuardInit
  /\ cur = [th \in Threads |-> 0]
  /\ BlockIdle
  /\ peerCount \in 0..MaxPeerDevices
  /\ peerCan \in SUBSET PeerPairs(peerCount)
  /\ peerOut = <<>>

NextPeer ==
  \E failAt \in {<<"none">>, <<"count">>} \cup PeerPairs(peerCount) :
    GetCudaPeerAccessPattern(failAt)

SpecPeer == InitPeer /\ [][NextPeer]_vars
(* -------------------------------- claims ------------------------------ *)

\* C1. DeviceGuard round trip: once the scope { DeviceGuard g(t); body } has
\* been left, the thread's current device is the device c that was current
\* before g was constructed, whatever the body switched to in between.
C1_RoundTrip ==
  (last.op = "dtor" /\ alive) => cur[last.th] = last.ambient

\* A scope was left whose guard switched on entry and whose body had switched
\* away from the guard's target before the exit.
C1_Witness ==
  /\ last.op = "dtor" /\ alive
  /\ last.ambient # last.t
  /\ last.c # last.t
  /\ cur[last.th] = last.ambient

\* C2. No-op optimization: a constructor that finds the current device equal
\* to its target issues no cudaSetDevice call; one that finds them different
\* issues exactly one, for its target.
C2_NoOpConstruction ==
  (last.op = "ctor" /\ last.via = "set") =>
    last.calls = (IF last.c = last.t THEN <<>> ELSE <<last.t>>)

\* A guard was constructed for the device that was already current.
C2_Witness ==
  /\ last.op = "ctor" /\ last.via = "set" /\ alive
  /\ last.c = last.t
  /\ last.calls = <<>>
  /\ Len(guards[last.th]) = last.depth + 1

\* ceil(n / d) for n >= 0, d > 0.
CeilDiv(n, d) == (n \div d) + (IF n % d = 0 THEN 0 ELSE 1)

\* C3. CAFFE_GET_BLOCKS(N) = min(ceil(N / 512), 4096) for every non-negative
\* int N, the largest included: never negative, never above 4096.
C3_BlockCount ==
  blkOut # <<>> =>
    /\ ~blkOut[1].trap
    /\ blkOut[1].value =
         StdMin(CeilDiv(blkN, CAFFE_CUDA_NUM_THREADS), CAFFE_MAXIMUM_NUM_BLOCKS)
    /\ blkOut[1].value \in 0..CAFFE_MAXIMUM_NUM_BLOCKS

\* The same statement for the arguments whose sum N + 511 fits an int.
BlockCountBelowOverflow ==
  (blkOut # <<>> /\ blkN <= INT_MAX - (CAFFE_CUDA_NUM_THREADS - 1)) =>
    /\ ~blkOut[1].trap
    /\ blkOut[1].value =
         StdMin(CeilDiv(blkN, CAFFE_CUDA_NUM_THREADS), CAFFE_MAXIMUM_NUM_BLOCKS)

C5_UnconditionalRestore ==
  last.op = "dtor" =>
    /\ last.via \in {"normal", "unwind"}
    /\ last.calls = <<last.ambient>>
    /\ alive => cur[last.th] = last.ambient

\* An exception unwound a scope whose constructor had not switched and whose
\* body had.
C5_Witness ==
  /\ last.op = "dtor" /\ alive
  /\ last.via = "unwind"
  /\ last.ambient = last.t
  /\ last.c # last.ambient
  /\ cur[last.th] = last.ambient

\* C6. Default GPU id: 0 until SetDefaultGPUID is first called, afterwards the
\* argument of the latest call, whatever it is; guards and device switches
\* leave it alone.
C6_DefaultDevice ==
  GetDefaultGPUID = (IF defaultArg = <<>> THEN 0 ELSE defaultArg[1])

\* An id outside the device range was stored, and a guard came and went since.
C6_Witness ==
  /\ defaultArg = <<NumDevices>>
  /\ GetDefaultGPUID = NumDevices
  /\ last.op = "dtor" /\ alive
  /\ last.ambient # last.t

\* C7. Advisory peer access failure: a failing runtime query makes
\* GetCudaPeerAccessPattern return false and does not terminate the process;
\* with no failing query it returns true and a square matrix of side the device
\* count whose diagonal is all true.
C7_PeerAdvisory ==
  peerOut # <<>> =>
    LET r == peerOut[1]
        ids == 0..(peerCount - 1)
    IN /\ alive
       /\ r.failAt # <<"none">> => ~r.ok
       /\ r.failAt = <<"none">> =>
            /\ r.ok
            /\ r.side = peerCount
            /\ r.pattern \subseteq ids \X ids
            /\ \A i \in ids : <<i, i>> \in r.pattern
            /\ \A p \in PeerPairs(peerCount) : p \in r.pattern <=> p \in peerCan

\* A peer query between two devices failed and false was returned.
C7_Witness ==
  /\ peerOut # <<>>
  /\ peerCount >= 2
  /\ peerOut[1].failAt \in PeerPairs(peerCount)
  /\ ~peerOut[1].ok
  /\ alive

C9_NestedGuards ==
  /\ \A th \in Threads : \A i \in 1..Len(guards[th]) :
       /\ guards[th][i].previous_ = guards[th][i].ambient
       /\ guards[th][i].base = guards[th][1].ambient
  /\ (last.op = "dtor" /\ alive) =>
       /\ cur[last.th] = last.ambient
       /\ Len(guards[last.th]) = last.depth - 1
       /\ last.depth = 1 => cur[last.th] = last.base

\* An inner guard was destroyed inside an outer guard that had itself switched.
C9_Witness ==
  /\ last.op = "dtor" /\ alive
  /\ last.depth >= 2
  /\ last.ambient # last.t
  /\ last.ambient # last.base
  /\ cur[last.th] = last.ambient

\* C10. Thread isolation: a step of one thread (a guard's construction or
\* destruction, a device switch) changes neither the current device nor the
\* guards of another thread, and a guard left on any thread restores that
\* thread's own prior device.
C10_ThreadIsolation ==
  [][/\ \A th \in Threads \ {last'.th} : cur'[th] = cur[th] /\ guards'[th] = guards[th]
     /\ (last'.op = "dtor" /\ alive') => cur'[last'.th] = last'.ambient]_vars

\* A guard was left on one thread while another thread, on a different device,
\* held a guard that had recorded a different device.
C10_Witness ==
  /\ last.op = "dtor" /\ alive
  /\ last.ambient # last.t
  /\ \E o \in Threads \ {last.th} :
       /\ guards[o] # <<>>
       /\ guards[o][1].previous_ # last.ambient
       /\ cur[o] # cur[last.th]
====
